---- MODULE Spec2Model ----
(***************************************************************************)
(* Model of yard's curve engine (src/yard/curve.py): the generic 2D point  *)
(* series `Curve` (auc, coarsen, transform, transform_x, transform_y) and  *)
(* the builder `BinaryClassifierPerformanceCurve` that derives its points  *)
(* from the confusion matrices of a dataset.                               *)
(*                                                                         *)
(* Numbers.  A coordinate c in 0..Grid stands for the real number c/Grid,  *)
(* so Grid stands for 1.  Arithmetic is exact: auc() is kept as the        *)
(* numerator of a fraction whose denominator is AucDen = 2 * Grid * Grid   *)
(* (the 2 is the "/ 2." of the trapezoid).  With Grid a power of two every *)
(* value of the model is a dyadic rational that Python's float holds       *)
(* exactly; rounding of other values is outside this model.                *)
(***************************************************************************)
EXTENDS Integers, Sequences, FiniteSets, TLC

\* ------------------------------------------------------------------ bounds
Grid == 2
MaxLen == 3
MaxDiag == 5
MaxK == 5
MaxMat == 2

Coord == 0..Grid
Points == Coord \X Coord
AucDen == 2 * Grid * Grid

SeqsUpTo(S, n) == UNION {[1..m -> S] : m \in 0..n}

\* The series a Curve is constructed with: every series of up to MaxLen
\* corners of the unit square, in any order, and every series of up to
\* MaxDiag points on the line y = x whose x never increases along the
\* sequence.  The calls below lead from these to further series.
Corners == {0, Grid} \X {0, Grid}
Diagonal == {<<c, c>> : c \in Coord}
Series ==
  SeqsUpTo(Corners, MaxLen)
    \cup {s \in SeqsUpTo(Diagonal, MaxDiag) :
            \A i \in 1..(Len(s) - 1) : s[i][1] >= s[i + 1][1]}

\* ------------------------------------------------- inputs of the operations
\* Values of the every= / until= keyword: any integer, here -2..MaxK.
KVals == (0 - 2)..MaxK

\* The keyword dictionaries of a coarsen call: neither mode, one mode, or
\* both modes (both with the same value, 1 or 2).
NoKwds == [key \in {} |-> 0]
Kwds ==
  {NoKwds} \cup [{"every"} -> KVals] \cup [{"until"} -> KVals]
           \cup {[key \in {"every", "until"} |-> k] : k \in 1..2}

\* Single-argument mappers handed to transform_x / transform_y.
Identity == [c \in Coord |-> c]
Complement == [c \in Coord |-> Grid - c]
Floor == [c \in Coord |-> IF c = Grid THEN Grid ELSE 0]
Mapper1 == [name \in {"identity", "complement", "floor"} |->
              CASE name = "identity" -> Identity
                [] name = "complement" -> Complement
                [] name = "floor" -> Floor]
Mapper1Names == DOMAIN Mapper1

\* Two-argument mappers handed to transform.
Swap == [p \in Points |-> <<p[2], p[1]>>]
Mirror == [p \in Points |-> <<Grid - p[1], Grid - p[2]>>]
Mapper2 == [name \in {"swap", "mirror"} |->
              CASE name = "swap" -> Swap
                [] name = "mirror" -> Mirror]
Mapper2Names == DOMAIN Mapper2

Compose(g, f) == [c \in Coord |-> g[f[c]]]

\* ------------------------------------------------------- Python primitives
Abs(k) == IF k < 0 THEN 0 - k ELSE k
CeilDiv(n, k) == (n + k - 1) \div k

\* points[::k] for k # 0: positions 0, k, 2k, ... for k > 0 and
\* n-1, n-1+k, ... for k < 0 (sequences here are 1-based).
slice_step(points, k) ==
  LET n == Len(points)
      m == CeilDiv(n, Abs(k))
  IN IF k > 0 THEN [i \in 1..m |-> points[(i - 1) * k + 1]]
     ELSE [i \in 1..m |-> points[n - (i - 1) * Abs(k)]]

\* len(points) % k != 0 for k # 0 (Python's % takes the sign of k).
mod_nonzero(n, k) == n % Abs(k) # 0

\* izip(points, points[1:])
izip_next(points) ==
  [i \in 1..(IF Len(points) = 0 THEN 0 ELSE Len(points) - 1) |->
     <<points[i], points[i + 1]>>]

RECURSIVE sum(_)
sum(terms) == IF terms = <<>> THEN 0 ELSE Head(terms) + sum(Tail(terms))

\* ------------------------------------------------------------- Curve.auc
\* Variant: the usual trapezoid orientation, (x1-x0) in place of (x0-x1).
auc_ascending(points) ==
  LET pairs == izip_next(points)
  IN sum([i \in 1..Len(pairs) |->
            (pairs[i][1][2] + pairs[i][2][2]) * (pairs[i][2][1] - pairs[i][1][1])])

\* Variant: a left Riemann sum, y0 in place of (y0+y1) / 2.
auc_left_sum(points) ==
  LET pairs == izip_next(points)
  IN sum([i \in 1..Len(pairs) |->
            2 * pairs[i][1][2] * (pairs[i][1][1] - pairs[i][2][1])])

\* Variant: a right Riemann sum, y1 in place of (y0+y1) / 2.
auc_right_sum(points) ==
  LET pairs == izip_next(points)
  IN sum([i \in 1..Len(pairs) |->
            2 * pairs[i][2][2] * (pairs[i][1][1] - pairs[i][2][1])])

\* Numerator over AucDen of sum((y0+y1) / 2. * (x0-x1) for ... in izip(..)).
auc(points) ==
  LET pairs == izip_next(points)
  IN sum([i \in 1..Len(pairs) |->
            (pairs[i][1][2] + pairs[i][2][2]) * (pairs[i][1][1] - pairs[i][2][1])])

\* --------------------------------------------------------- Curve.coarsen
Raise(points) == [raised |-> TRUE, points |-> points]
Return(points) == [raised |-> FALSE, points |-> points]

\* Variant: the last point is appended when the slice did not reach it,
\* (len(points)-1) % k != 0 in place of len(points) % k != 0.
coarsen_every_reaching(points, k) ==
  IF k = 0 THEN Raise(points)
  ELSE LET kept == slice_step(points, k)
       IN Return(IF mod_nonzero(Len(points) - 1, k)
                 THEN Append(kept, points[Len(points)])
                 ELSE kept)

\* The every= branch: points[::k], plus the last point when k does not
\* divide len(points).  points[::0] raises before anything is assigned.
coarsen_every(points, k) ==
  IF k = 0 THEN Raise(points)
  ELSE LET kept == slice_step(points, k)
       IN Return(IF mod_nonzero(Len(points), k)
                 THEN Append(kept, points[Len(points)])
                 ELSE kept)

\* Variant: the result is built in self._points itself, which is emptied
\* before step is computed.
coarsen_until_in_place(points, k) ==
  IF k = 1 THEN [raised |-> TRUE, points |-> <<>>]
  ELSE LET n == Len(points)
           result == [idx \in 1..(k - 2) |->
                        points[((idx * (n - 1)) \div (k - 1)) + 1]]
       IN Return(Append(result, points[n]))

\* The until= branch.  step = (n-1) / (k-1.) raises for k = 1 before
\* anything is assigned; int(idx*step) is floor(idx*(n-1)/(k-1)) for k >= 2
\* and the range xrange(1, k-1) is empty for k <= 2.
coarsen_until(points, k) ==
  IF k = 1 THEN Raise(points)
  ELSE LET n == Len(points)
           result == [idx \in 1..(k - 2) |->
                        points[((idx * (n - 1)) \div (k - 1)) + 1]]
       IN Return(Append(result, points[n]))

coarsen(points, kwds) ==
  IF "every" \in DOMAIN kwds /\ "until" \in DOMAIN kwds THEN Raise(points)
  ELSE IF "every" \notin DOMAIN kwds /\ "until" \notin DOMAIN kwds THEN Raise(points)
  ELSE IF points = <<>> THEN Return(points)
  ELSE IF "every" \in DOMAIN kwds THEN coarsen_every(points, kwds["every"])
  ELSE coarsen_until(points, kwds["until"])

\* ------------------------------------------------------ Curve.transform*
transform(points, mapper) == [i \in 1..Len(points) |-> mapper[points[i]]]
\* Variant: the mapper is applied to both coordinates.
transform_x_both(points, mapper) ==
  [i \in 1..Len(points) |-> <<mapper[points[i][1]], mapper[points[i][2]]>>]

transform_x(points, mapper) ==
  [i \in 1..Len(points) |-> <<mapper[points[i][1]], points[i][2]>>]
transform_y(points, mapper) ==
  [i \in 1..Len(points) |-> <<points[i][1], mapper[points[i][2]]>>]

\* ------------------------------------- confusion matrices and their metrics
\* A BinaryConfusionMatrix is known to the curve engine only through its
\* metric accessors, so a matrix is the record of what they answer.  The
\* matrices are the four with both rates at 0 or 1: no true positive gives
\* precision 0, true positives without false positives give precision 1,
\* both kinds give a precision in between (one grid step here).
Matrices ==
  {m \in [fpr : {0, Grid}, tpr : {0, Grid}, precision : Coord] :
     /\ m.tpr = 0 => m.precision = 0
     /\ (m.tpr = Grid /\ m.fpr = 0) => m.precision = Grid
     /\ (m.tpr = Grid /\ m.fpr = Grid) => m.precision = 1}

\* A dataset, as the sequence its iter_confusion_matrices() yields.
Datasets == SeqsUpTo(Matrices, MaxMat)

\* What a caller may assign to `data`: something a dataset is or can be
\* made of (valid), or something BinaryClassifierData(data) rejects.
DataArgs ==
  {[valid |-> TRUE, mats |-> d] : d \in Datasets}
    \cup {[valid |-> FALSE, mats |-> <<>>]}

\* Metric functions: the accessors of BinaryConfusionMatrix, and a caller's
\* own function tpr_per_fpr = lambda m: m.tpr() / m.fpr(), which raises
\* when fpr is 0.
MetricNames == {"fpr", "tpr", "precision", "recall", "fdp", "tpr_per_fpr"}
MetricRaises(name, m) == name = "tpr_per_fpr" /\ m.fpr = 0
Metric(name, m) ==
  CASE name = "fpr" -> m.fpr
    [] name = "tpr" -> m.tpr
    [] name = "recall" -> m.tpr
    [] name = "precision" -> m.precision
    [] name = "fdp" -> Grid - m.precision
    [] name = "tpr_per_fpr" -> m.tpr

\* The (x_func, y_func) pairs a builder is constructed with.
MetricPairs ==
  {<<"fpr", "tpr">>, <<"recall", "precision">>, <<"tpr_per_fpr", "tpr">>}

\* ------------------------------------- BinaryClassifierPerformanceCurve
\* Variant: x_func and y_func change places.
calculate_points_swapped(data, x_func, y_func) ==
  [i \in 1..Len(data) |-> <<Metric(y_func, data[i]), Metric(x_func, data[i])>>]

\* _calculate_points: [(x_func(mat), y_func(mat)) for _, mat in ...].
calculate_points(data, x_func, y_func) ==
  [i \in 1..Len(data) |-> <<Metric(x_func, data[i]), Metric(y_func, data[i])>>]

calculation_raises(data, x_func, y_func) ==
  \E i \in 1..Len(data) :
    MetricRaises(x_func, data[i]) \/ MetricRaises(y_func, data[i])

\* The data setter: bind the dataset (coercing it when it is not one), then
\* recompute the points.  A failed coercion leaves both fields; a metric
\* that raises leaves _points but not _data.
set_data(data, points, arg, x_func, y_func) ==
  IF ~arg.valid
  THEN [raised |-> TRUE, data |-> data, points |-> points]
  ELSE IF calculation_raises(arg.mats, x_func, y_func)
  THEN [raised |-> TRUE, data |-> arg.mats, points |-> points]
  ELSE [raised |-> FALSE, data |-> arg.mats,
        points |-> calculate_points(arg.mats, x_func, y_func)]

\* ------------------------------------------------------------------ state
VARIABLES
  data,     \* BinaryClassifierPerformanceCurve._data (<<>> in a plain Curve)
  x_func,   \* BinaryClassifierPerformanceCurve.x_func ("" in a plain Curve)
  y_func,   \* BinaryClassifierPerformanceCurve.y_func ("" in a plain Curve)
  points,   \* Curve._points
  pre,      \* history: _points when the last call started
  call,     \* history: the last call, its arguments, whether it raised and
            \* the value it returned (auc: numerator over AucDen; else 0)
  chain     \* history: the current run of consecutive transform_x calls

vars == <<data, x_func, y_func, points, pre, call, chain>>
funcs == <<x_func, y_func>>

NoChain == [n |-> 0, start |-> <<>>, f |-> Identity]
Called(op, kwds, f, raised, ret) ==
  [op |-> op, kwds |-> kwds, f |-> f, raised |-> raised, ret |-> ret]

\* Curve.__init__(points): the setter copies the iterable of 2-tuples.
Init ==
  /\ data = <<>>
  /\ x_func = ""
  /\ y_func = ""
  /\ points \in Series
  /\ pre = <<>>
  /\ call = Called("init", NoKwds, "", FALSE, 0)
  /\ chain = NoChain

Coarsen(kwds) ==
  LET r == coarsen(points, kwds)
  IN /\ points' = r.points
     /\ pre' = points
     /\ call' = Called("coarsen", kwds, "", r.raised, 0)
     /\ chain' = NoChain
     /\ UNCHANGED <<data, funcs>>

Auc ==
  /\ pre' = points
  /\ call' = Called("auc", NoKwds, "", FALSE, auc(points))
  /\ chain' = NoChain
  /\ UNCHANGED <<points, data, funcs>>

\* The `points` getter.
ReadPoints ==
  /\ pre' = points
  /\ call' = Called("points", NoKwds, "", FALSE, 0)
  /\ chain' = NoChain
  /\ UNCHANGED <<points, data, funcs>>

Transform(name) ==
  /\ points' = transform(points, Mapper2[name])
  /\ pre' = points
  /\ call' = Called("transform", NoKwds, name, FALSE, 0)
  /\ chain' = NoChain
  /\ UNCHANGED <<data, funcs>>

TransformX(name) ==
  /\ points' = transform_x(points, Mapper1[name])
  /\ pre' = points
  /\ call' = Called("transform_x", NoKwds, name, FALSE, 0)
  /\ chain' = IF chain.n = 1
              THEN [n |-> 2, start |-> chain.start, f |-> Compose(Mapper1[name], chain.f)]
              ELSE [n |-> 1, start |-> points, f |-> Mapper1[name]]
  /\ UNCHANGED <<data, funcs>>

TransformY(name) ==
  /\ points' = transform_y(points, Mapper1[name])
  /\ pre' = points
  /\ call' = Called("transform_y", NoKwds, name, FALSE, 0)
  /\ chain' = NoChain
  /\ UNCHANGED <<data, funcs>>

Next ==
  \/ \E kwds \in Kwds : Coarsen(kwds)
  \/ Auc
  \/ ReadPoints
  \/ \E name \in Mapper2Names : Transform(name)
  \/ \E name \in Mapper1Names : TransformX(name)
  \/ \E name \in Mapper1Names : TransformY(name)

Spec == Init /\ [][Next]_vars

\* ------------------------------------------------------------ the builder
\* BinaryClassifierPerformanceCurve.__init__(data, x_func, y_func) with
\* callable metric functions, for the constructions that succeed: the data
\* setter runs on the fresh object (_data = None, _points = None).
InitBuilder ==
  \E arg \in DataArgs, pair \in MetricPairs :
    LET r == set_data(<<>>, <<>>, arg, pair[1], pair[2])
    IN /\ ~r.raised
       /\ x_func = pair[1]
       /\ y_func = pair[2]
       /\ data = r.data
       /\ points = r.points
       /\ pre = <<>>
       /\ call = Called("init", NoKwds, "", FALSE, 0)
       /\ chain = NoChain

\* curve.data = arg
SetData(arg) ==
  LET r == set_data(data, points, arg, x_func, y_func)
  IN /\ data' = r.data
     /\ points' = r.points
     /\ pre' = points
     /\ call' = Called("set_data", NoKwds, "", r.raised, 0)
     /\ chain' = NoChain
     /\ UNCHANGED funcs

\* The `data` getter.
ReadData ==
  /\ pre' = points
  /\ call' = Called("data", NoKwds, "", FALSE, 0)
  /\ chain' = NoChain
  /\ UNCHANGED <<points, data, funcs>>

\* The calls made on a builder: the ones it defines and, with a few
\* arguments each, the ones it inherits from Curve.
BuilderKwds ==
  {NoKwds, [key \in {"every"} |-> 2], [key \in {"until"} |-> 2],
   [key \in {"until"} |-> 1]}

NextBuilder ==
  \/ \E arg \in DataArgs : SetData(arg)
  \/ ReadData
  \/ ReadPoints
  \/ Auc
  \/ \E kwds \in BuilderKwds : Coarsen(kwds)
  \/ Transform("mirror")
  \/ TransformX("complement")
  \/ TransformY("floor")

SpecBuilder == InitBuilder /\ [][NextBuilder]_vars

\* ------------------------------------------------------ the curve variants
\* ROCCurve, PrecisionRecallCurve and AccumulationCurve each derive from
\* BinaryClassifierPerformanceCurve alone; __init__ of each is one call
\* super(<class named>, self).__init__(data, <x accessor>, <y accessor>).
Variants == {"ROCCurve", "PrecisionRecallCurve", "AccumulationCurve"}

\* The classes an instance of the variant is an instance of.
InstanceOf(variant) ==
  {variant, "BinaryClassifierPerformanceCurve", "Curve", "object"}

\* The class each __init__ names in its super() call, and the accessors it
\* passes on.
SuperNamed(variant) ==
  CASE variant = "ROCCurve" -> "ROCCurve"
    [] variant = "PrecisionRecallCurve" -> "PrecisionRecallCurve"
    [] variant = "AccumulationCurve" -> "PrecisionRecallCurve"
VariantPair(variant) ==
  CASE variant = "ROCCurve" -> <<"fpr", "tpr">>
    [] variant = "PrecisionRecallCurve" -> <<"recall", "precision">>
    [] variant = "AccumulationCurve" -> <<"fdp", "tpr">>

NotConstructed ==
  [raised |-> TRUE, data |-> <<>>, points |-> <<>>, x_func |-> "", y_func |-> ""]

\* <Variant>(data): super(type, obj) raises TypeError when obj is not an
\* instance of type, before any field is set; otherwise the builder's
\* __init__ runs with the variant's accessors.
construct(variant, arg) ==
  IF SuperNamed(variant) \notin InstanceOf(variant) THEN NotConstructed
  ELSE LET pair == VariantPair(variant)
           r == set_data(<<>>, <<>>, arg, pair[1], pair[2])
       IN IF r.raised THEN NotConstructed
          ELSE [raised |-> FALSE, data |-> r.data, points |-> r.points,
                x_func |-> pair[1], y_func |-> pair[2]]

\* A variant constructed from a valid dataset; call.f names the variant.
InitVariant ==
  \E variant \in Variants, arg \in {a \in DataArgs : a.valid} :
    LET r == construct(variant, arg)
    IN /\ x_func = r.x_func
       /\ y_func = r.y_func
       /\ data = r.data
       /\ points = r.points
       /\ pre = <<>>
       /\ call = Called("init", NoKwds, variant, r.raised, 0)
       /\ chain = NoChain

\* A construction that raised leaves no object to call.
Constructed == x_func # ""

NextVariant == Constructed /\ NextBuilder

SpecVariant == InitVariant /\ [][NextVariant]_vars

\* ================================================================ claims
Last(s) == s[Len(s)]
IsEvery == call.op = "coarsen" /\ DOMAIN call.kwds = {"every"}
IsUntil == call.op = "coarsen" /\ DOMAIN call.kwds = {"until"}
EveryK == call.kwds["every"]
UntilK == call.kwds["until"]

\* C1: for 2 <= k <= n, after coarsen(until=k) the series holds exactly k
\* points.
C1_UntilLeavesKPoints ==
  (IsUntil /\ 2 <= UntilK /\ UntilK <= Len(pre)) => Len(points) = UntilK

\* C2: for 2 <= k <= n, after coarsen(until=k) the first point is the
\* original first point and the last point is the original last point.
C2_UntilKeepsEndpoints ==
  (IsUntil /\ 2 <= UntilK /\ UntilK <= Len(pre)) =>
    /\ points # <<>>
    /\ points[1] = pre[1]
    /\ Last(points) = Last(pre)

\* C3: for n < k (n = 0 and n = 1 included), coarsen(until=k) is a no-op:
\* the point sequence after the call equals the one before it.
C3_UntilNoOpWhenFewer ==
  (IsUntil /\ Len(pre) < UntilK) => (points = pre /\ ~call.raised)

\* C4: for a non-empty series and k >= 1, after coarsen(every=k) the first
\* point is the original first point and the last point is the original
\* last point.
C4_EveryKeepsEndpoints ==
  (IsEvery /\ EveryK >= 1 /\ pre # <<>>) =>
    /\ points # <<>>
    /\ points[1] = pre[1]
    /\ Last(points) = Last(pre)

RECURSIVE TrapezoidSum(_, _)
TrapezoidSum(s, upto) ==
  IF upto < 1 THEN 0
  ELSE TrapezoidSum(s, upto - 1)
         + (s[upto][2] + s[upto + 1][2]) * (s[upto][1] - s[upto + 1][1])

\* C6: auc() returns the signed trapezoidal sum over adjacent pairs in
\* sequence order, and returns 0 without error for a series of zero points
\* or of one point.
C6_AucIsSignedTrapezoid ==
  call.op = "auc" =>
    /\ ~call.raised
    /\ points = pre
    /\ call.ret = TrapezoidSum(pre, Len(pre) - 1)
    /\ Len(pre) <= 1 => call.ret = 0

C6_Witness ==
  /\ call.op = "auc"
  /\ Len(pre) = 3
  /\ call.ret < 0

\* A series on the line y = x whose x runs, never increasing, from 1 (Grid)
\* at the first point to 0 at the last.
OnDiagonalDescending(s) ==
  /\ Len(s) >= 2
  /\ \A i \in 1..Len(s) : s[i][1] = s[i][2]
  /\ s[1][1] = Grid
  /\ s[Len(s)][1] = 0
  /\ \A i \in 1..(Len(s) - 1) : s[i][1] >= s[i + 1][1]

C8_CoarsenErrorLeavesPoints ==
  call.op = "coarsen" =>
    /\ call.raised => points = pre
    /\ DOMAIN call.kwds \in {{}, {"every", "until"}} => call.raised

C8_Witness ==
  /\ IsUntil /\ UntilK = 1
  /\ call.raised
  /\ Len(pre) >= 2
  /\ points = pre

\* C9: transform_x(f) followed by transform_x(g) leaves the same sequence as
\* transform_x(g o f) applied once: same length, same order, y untouched;
\* with the identity, transform_x and transform_y leave the sequence
\* unchanged.
C9_TransformXComposes ==
  /\ chain.n = 2 =>
       /\ points = transform_x(chain.start, chain.f)
       /\ Len(points) = Len(chain.start)
       /\ \A i \in 1..Len(points) :
            /\ points[i][1] = chain.f[chain.start[i][1]]
            /\ points[i][2] = chain.start[i][2]
  /\ (call.op \in {"transform_x", "transform_y"} /\ call.f = "identity") =>
       points = pre

C9_Witness ==
  /\ chain.n = 2
  /\ Len(points) >= 2
  /\ pre # chain.start
  /\ points # pre
  /\ points # chain.start

Range(s) == {s[i] : i \in 1..Len(s)}

\* The point sequence of the claim: one point (x_func(m), y_func(m)) per
\* confusion matrix m of the bound dataset, in source order.
PointsOfBoundData ==
  /\ Len(points) = Len(data)
  /\ \A i \in 1..Len(data) :
       /\ points[i][1] = Metric(x_func, data[i])
       /\ points[i][2] = Metric(y_func, data[i])

\* What a call other than a data assignment does to a builder: the bound
\* dataset and the metric functions stay, reads leave the points, and the
\* other calls derive the new points from the old ones alone.
OnlyAssignmentRebinds ==
  call'.op # "set_data" =>
    /\ data' = data
    /\ x_func' = x_func /\ y_func' = y_func
    /\ call'.op \in {"auc", "points", "data"} => points' = points
    /\ call'.op = "coarsen" => Range(points') \subseteq Range(points)
    /\ call'.op \in {"transform", "transform_x", "transform_y"} =>
         Len(points') = Len(points)
    /\ call'.op = "transform" =>
         \A i \in 1..Len(points) : points'[i] = Mapper2[call'.f][points[i]]
    /\ call'.op = "transform_x" =>
         \A i \in 1..Len(points) : points'[i][2] = points[i][2]
    /\ call'.op = "transform_y" =>
         \A i \in 1..Len(points) : points'[i][1] = points[i][1]

\* C10: right after construction and after every successful data assignment
\* the points are [(x_func(m), y_func(m))] over the matrices of the newly
\* bound dataset, in source order, whatever coarsening or transformation
\* came before; no other operation recomputes the points or changes the
\* bound dataset.
C10_PointsFollowAssignment ==
  /\ []((call.op \in {"init", "set_data"} /\ ~call.raised) => PointsOfBoundData)
  /\ [][OnlyAssignmentRebinds]_vars

C10_Witness ==
  /\ call.op = "set_data" /\ ~call.raised
  /\ Len(points) = 2
  /\ points[1] # points[2]
  /\ points[1][1] # points[1][2]
  /\ points # pre
  /\ \A d \in Datasets : pre # calculate_points(d, x_func, y_func)

\* C11: constructing an Accumulation curve from any valid dataset succeeds
\* and gives a builder bound to x = FDP and y = TPR whose points are
\* [(fdp(m), tpr(m))] over the matrices in source order.
C11_AccumulationConstructs ==
  (call.op = "init" /\ call.f = "AccumulationCurve") =>
    /\ ~call.raised
    /\ x_func = "fdp" /\ y_func = "tpr"
    /\ PointsOfBoundData

\* The positions 0, k, 2k, ... below n of the claim, as 1-based indices.
MultiplesBelow(n, k) == {i \in 1..n : (i - 1) % k = 0}
RECURSIVE PickAscending(_, _)
PickAscending(s, idxs) ==
  IF idxs = {} THEN <<>>
  ELSE LET lo == CHOOSE i \in idxs : \A j \in idxs : i <= j
       IN <<s[lo]>> \o PickAscending(s, idxs \ {lo})

\* C12: for a non-empty series and k >= 1, coarsen(every=k) yields the
\* points at positions 0, k, 2k, ... and then the original last point if and
\* only if position n-1 is not one of those positions, so that position n-1
\* is never emitted twice.
C12_EveryAppendsLastOnce ==
  (IsEvery /\ EveryK >= 1 /\ pre # <<>>) =>
    LET n == Len(pre)
        kept == PickAscending(pre, MultiplesBelow(n, EveryK))
    IN points = IF n \in MultiplesBelow(n, EveryK)
                THEN kept
                ELSE Append(kept, pre[n])

\* C13: if a data assignment ends in an error, both the bound dataset and
\* the point sequence are as they were before the assignment.
C13_FailedAssignmentKeepsBoth ==
  [][(call'.op = "set_data" /\ call'.raised) =>
       (data' = data /\ points' = points)]_vars

Reverse(s) == [i \in 1..Len(s) |-> s[Len(s) + 1 - i]]

====
